---- MODULE Spec2Model ----
(***************************************************************************)
(* Guardrail-enforced refinement loop of the JSON-to-SQL agent.            *)
(*                                                                         *)
(*   src/examples/json_sql_copilot.py   sanitize_sql (the SQL guardrails)  *)
(*   src/examples/json_sql_agent.py     generate_sql_node, execute_sql_node*)
(*                                      review_node, build_agent_graph,    *)
(*                                      run_agent                          *)
(*                                                                         *)
(* Texts are sequences of one-character strings, so that strip, the        *)
(* regular expressions and the LIMIT rewriting act on characters as the    *)
(* Python code does.                                                       *)
(***************************************************************************)
EXTENDS Integers, Sequences, FiniteSets, TLC

(***************************************************************************)
(* Characters and the Python string primitives used by the code.           *)
(***************************************************************************)
LowerLetters ==
    {"a", "b", "c", "d", "e", "f", "g", "h", "i", "j", "k", "l", "m",
     "n", "o", "p", "q", "r", "s", "t", "u", "v", "w", "x", "y", "z"}

UpperLetters ==
    {"A", "B", "C", "D", "E", "F", "G", "H", "I", "J", "K", "L", "M",
     "N", "O", "P", "Q", "R", "S", "T", "U", "V", "W", "X", "Y", "Z"}

DigitChars == {"0", "1", "2", "3", "4", "5", "6", "7", "8", "9"}

\* The back-tick character of the code fences (TLA+ strings cannot hold the
\* character itself, so it is named).
Tick == "TICK"

\* \s of the regular expressions and the default argument of str.strip
WhiteSpace == {" ", "\n", "\t"}

\* \w of the regular expressions: what \b separates from the rest
WordChars == LowerLetters \cup UpperLetters \cup DigitChars \cup {"_"}

LowerMap ==
    ("A" :> "a") @@ ("B" :> "b") @@ ("C" :> "c") @@ ("D" :> "d") @@
    ("E" :> "e") @@ ("F" :> "f") @@ ("G" :> "g") @@ ("H" :> "h") @@
    ("I" :> "i") @@ ("J" :> "j") @@ ("K" :> "k") @@ ("L" :> "l") @@
    ("M" :> "m") @@ ("N" :> "n") @@ ("O" :> "o") @@ ("P" :> "p") @@
    ("Q" :> "q") @@ ("R" :> "r") @@ ("S" :> "s") @@ ("T" :> "t") @@
    ("U" :> "u") @@ ("V" :> "v") @@ ("W" :> "w") @@ ("X" :> "x") @@
    ("Y" :> "y") @@ ("Z" :> "z")

UpperMap ==
    ("a" :> "A") @@ ("b" :> "B") @@ ("c" :> "C") @@ ("d" :> "D") @@
    ("e" :> "E") @@ ("f" :> "F") @@ ("g" :> "G") @@ ("h" :> "H") @@
    ("i" :> "I") @@ ("j" :> "J") @@ ("k" :> "K") @@ ("l" :> "L") @@
    ("m" :> "M") @@ ("n" :> "N") @@ ("o" :> "O") @@ ("p" :> "P") @@
    ("q" :> "Q") @@ ("r" :> "R") @@ ("s" :> "S") @@ ("t" :> "T") @@
    ("u" :> "U") @@ ("v" :> "V") @@ ("w" :> "W") @@ ("x" :> "X") @@
    ("y" :> "Y") @@ ("z" :> "Z")

LowerChar(c) == IF c \in UpperLetters THEN LowerMap[c] ELSE c

UpperChar(c) == IF c \in LowerLetters THEN UpperMap[c] ELSE c

\* str.lower()
Lower(s) == [i \in 1..Len(s) |-> LowerChar(s[i])]

\* str.upper()
Upper(s) == [i \in 1..Len(s) |-> UpperChar(s[i])]

\* s[a-1:b] of Python for 1-based inclusive a..b; empty when a > b
Slice(s, a, b) == IF a > b THEN << >> ELSE SubSeq(s, a, b)

\* the first index >= i whose character is not in cs (Len(s)+1 when none)
SkipFwd(s, i, cs) ==
    CHOOSE j \in i..(Len(s) + 1) :
        /\ \A m \in i..(j - 1) : s[m] \in cs
        /\ j = Len(s) + 1 \/ s[j] \notin cs

\* the last index <= i whose character is not in cs (0 when none)
SkipBack(s, i, cs) ==
    CHOOSE j \in 0..i :
        /\ \A m \in (j + 1)..i : s[m] \in cs
        /\ j = 0 \/ s[j] \notin cs

\* str.lstrip(cs), str.rstrip(cs), str.strip(cs)
LStripChars(s, cs) == Slice(s, SkipFwd(s, 1, cs), Len(s))

RStripChars(s, cs) == Slice(s, 1, SkipBack(s, Len(s), cs))

StripChars(s, cs) == RStripChars(LStripChars(s, cs), cs)

\* str.strip(), str.rstrip() with no argument
Strip(s) == StripChars(s, WhiteSpace)

RStrip(s) == RStripChars(s, WhiteSpace)

\* whether p occurs in s at index i
MatchAt(s, i, p) ==
    /\ i >= 1
    /\ i + Len(p) - 1 <= Len(s)
    /\ \A k \in 1..Len(p) : s[i + k - 1] = p[k]

\* str.startswith, str.endswith, the "in" operator on strings
StartsWith(s, p) == MatchAt(s, 1, p)

EndsWith(s, p) == MatchAt(s, Len(s) - Len(p) + 1, p)

Contains(s, p) == \E i \in 1..(Len(s) + 1) : MatchAt(s, i, p)

\* str.find / str.rindex: the first and last index of p in s (0 when absent)
FindFrom(s, p, from) ==
    IF \E i \in from..(Len(s) + 1) : MatchAt(s, i, p)
    THEN CHOOSE i \in from..(Len(s) + 1) :
            /\ MatchAt(s, i, p)
            /\ \A j \in from..(i - 1) : ~MatchAt(s, j, p)
    ELSE 0

RIndex(s, p) ==
    IF Contains(s, p)
    THEN CHOOSE i \in 1..(Len(s) + 1) :
            /\ MatchAt(s, i, p)
            /\ \A j \in (i + 1)..(Len(s) + 1) : ~MatchAt(s, j, p)
    ELSE 0

\* \b between s[i-1] and s[i]
WordBoundary(s, i) ==
    LET before == i > 1 /\ i - 1 <= Len(s) /\ s[i - 1] \in WordChars
        after  == i >= 1 /\ i <= Len(s) /\ s[i] \in WordChars
    IN  before # after

\* int(text) for a run of decimal digits
DigitValue(c) ==
    CASE c = "0" -> 0 [] c = "1" -> 1 [] c = "2" -> 2 [] c = "3" -> 3
      [] c = "4" -> 4 [] c = "5" -> 5 [] c = "6" -> 6 [] c = "7" -> 7
      [] c = "8" -> 8 [] c = "9" -> 9

RECURSIVE ParseInt(_)
ParseInt(ds) ==
    IF Len(ds) = 0 THEN 0
    ELSE 10 * ParseInt(SubSeq(ds, 1, Len(ds) - 1)) + DigitValue(ds[Len(ds)])

\* str(n) for n >= 0, as the f-strings format the limits
DigitOf(n) ==
    CASE n = 0 -> "0" [] n = 1 -> "1" [] n = 2 -> "2" [] n = 3 -> "3"
      [] n = 4 -> "4" [] n = 5 -> "5" [] n = 6 -> "6" [] n = 7 -> "7"
      [] n = 8 -> "8" [] n = 9 -> "9"

RECURSIVE FormatInt(_)
FormatInt(n) ==
    IF n < 10 THEN << DigitOf(n) >>
    ELSE FormatInt(n \div 10) \o << DigitOf(n % 10) >>


(***************************************************************************)
(* SQL guardrails: sanitize_sql                                            *)
(***************************************************************************)
KwSql == <<"s", "q", "l">>

KwWith == <<"w", "i", "t", "h">>

KwSelect == <<"s", "e", "l", "e", "c", "t">>

KwLimit == <<"l", "i", "m", "i", "t">>

SpLimitSp == <<" ", "l", "i", "m", "i", "t", " ">>

SpLIMITSp == <<" ", "L", "I", "M", "I", "T", " ">>

LIMITSp == <<"L", "I", "M", "I", "T", " ">>

MsgAdded == <<" ", "a", "d", "d", "e", "d", ".">>

MsgClampedTo == <<"L", "I", "M", "I", "T", " ", "c", "l", "a", "m", "p", "e", "d", " ", "t", "o", " ">>

ErrMultiStmt == "Multiple statements detected; a single SELECT/CTE statement is required."

ErrNonSelect == "Only SELECT/CTE queries are allowed."

\* sql.strip().strip(Tick), then the "sql" label: sql[3:].lstrip(":").strip()
StripFenceAndLabel(sql) ==
    LET s1 == StripChars(Strip(sql), {Tick})
    IN  IF StartsWith(Lower(s1), KwSql)
        THEN Strip(LStripChars(Slice(s1, 4, Len(s1)), {":"}))
        ELSE s1

\* MULTI_STMT_RE.search(sql): r";\s*[^;\s]"
MultiStmtMutNoSpace(sql) ==
    \E i \in 1..(Len(sql) - 1) :
        sql[i] = ";" /\ sql[i + 1] \notin (WhiteSpace \cup {";"})

MultiStmt(sql) ==
    \E i \in 1..Len(sql) :
        /\ sql[i] = ";"
        /\ LET j == SkipFwd(sql, i + 1, WhiteSpace)
           IN  j <= Len(sql) /\ sql[j] # ";"

\* SELECT_ONLY_RE.match(sql): r"^\s*(with\b|select\b)", IGNORECASE
SelectOnlyMutUnanchored(sql) ==
    LET low == Lower(sql)
    IN  \E i \in 1..Len(sql) :
            /\ WordBoundary(sql, i)
            /\ \/ MatchAt(low, i, KwWith) /\ WordBoundary(sql, i + Len(KwWith))
               \/ MatchAt(low, i, KwSelect) /\ WordBoundary(sql, i + Len(KwSelect))

SelectOnly(sql) ==
    LET i == SkipFwd(sql, 1, WhiteSpace)
        low == Lower(sql)
    IN  \/ MatchAt(low, i, KwWith) /\ WordBoundary(sql, i + Len(KwWith))
        \/ MatchAt(low, i, KwSelect) /\ WordBoundary(sql, i + Len(KwSelect))

\* re.sub(r"\s+", " ", s): every maximal run of whitespace becomes one space
RECURSIVE NormalizeSpaces(_)
NormalizeSpaces(s) ==
    LET ws == { i \in 1..Len(s) : s[i] \in WhiteSpace }
    IN  IF ws = {} THEN s
        ELSE LET i == CHOOSE x \in ws : \A y \in ws : x <= y
                 j == SkipFwd(s, i, WhiteSpace)
             IN  Slice(s, 1, i - 1) \o << " " >>
                 \o NormalizeSpaces(Slice(s, j, Len(s)))

\* has_limit: " limit " in lowered and not lowered.rstrip().endswith(")")
HasLimit(sql) ==
    LET lowered == NormalizeSpaces(Lower(sql))
    IN  Contains(lowered, SpLimitSp) /\ ~EndsWith(RStrip(lowered), << ")" >>)

\* f"{sql.rstrip().rstrip(';')} LIMIT {default_limit}"
AppendDefaultLimit(sql, default_limit) ==
    RStripChars(RStrip(sql), {";"}) \o SpLIMITSp \o FormatInt(default_limit)

\* A match of r"\blimit\s+(\d+)\b" (IGNORECASE) starting at index i:
\* [from |-> i, digits |-> first digit, to |-> last digit], or to = 0.
NoMatch == [from |-> 0, digits |-> 0, to |-> 0]

LimitMatchAt(s, i) ==
    IF ~(LowerChar(s[i]) = "l" /\ WordBoundary(s, i) /\ MatchAt(Lower(s), i, KwLimit))
    THEN NoMatch
    ELSE LET ws == i + Len(KwLimit)
             d  == SkipFwd(s, ws, WhiteSpace)
             e  == SkipFwd(s, d, DigitChars)
         IN  IF d > ws /\ e > d /\ WordBoundary(s, e)
             THEN [from |-> i, digits |-> d, to |-> e - 1]
             ELSE NoMatch

\* re.search: the leftmost match at or after index from (to = 0 when none)
SearchLimit(s, from) ==
    LET starts == { i \in from..Len(s) : LimitMatchAt(s, i).to > 0 }
    IN  IF starts = {} THEN NoMatch
        ELSE LimitMatchAt(s, CHOOSE i \in starts : \A j \in starts : i <= j)

MatchValue(s, m) == ParseInt(Slice(s, m.digits, m.to))

\* re.sub(r"\blimit\s+\d+\b", f"LIMIT {hard_max_rows}", sql): every match
RECURSIVE SubAllLimits(_, _)
SubAllLimits(s, hard_max_rows) ==
    LET m == SearchLimit(s, 1)
    IN  IF m.to = 0 THEN s
        ELSE Slice(s, 1, m.from - 1) \o LIMITSp \o FormatInt(hard_max_rows)
             \o SubAllLimits(Slice(s, m.to + 1, Len(s)), hard_max_rows)

\* lines 296-299: the clamp decided on the first match only
ClampLimit(sql, hard_max_rows) ==
    LET m == SearchLimit(sql, 1)
    IN  IF m.to > 0 /\ MatchValue(sql, m) > hard_max_rows
        THEN [text |-> SubAllLimits(sql, hard_max_rows),
              warnings |-> << MsgClampedTo \o FormatInt(hard_max_rows) \o << "." >> >>]
        ELSE [text |-> sql, warnings |-> << >>]

Accepted(text, warnings) == [ok |-> TRUE, text |-> text, warnings |-> warnings, err |-> ""]

Rejected(err) == [ok |-> FALSE, text |-> << >>, warnings |-> << >>, err |-> err]

\* sanitize_sql(sql, allow_non_select, default_limit, hard_max_rows):
\* the returned (sql, warnings), or the ValueError raised
SanitizeSql(sql, allow_non_select, default_limit, hard_max_rows) ==
    LET s == StripFenceAndLabel(sql)
    IN  IF MultiStmt(s) THEN Rejected(ErrMultiStmt)
        ELSE IF ~allow_non_select /\ ~SelectOnly(s) THEN Rejected(ErrNonSelect)
        ELSE LET has_limit == HasLimit(s)
                 s2 == IF has_limit THEN s ELSE AppendDefaultLimit(s, default_limit)
                 w1 == IF has_limit THEN << >>
                       ELSE << LIMITSp \o FormatInt(default_limit) \o MsgAdded >>
                 c  == ClampLimit(s2, hard_max_rows)
             IN  Accepted(c.text, w1 \o c.warnings)


(***************************************************************************)
(* State.                                                                  *)
(*   state, form, pc, calls : one run of the agent (run_agent)             *)
(*   vInput .. vStage       : one application of sanitize_sql to a text    *)
(***************************************************************************)
VARIABLES
    state,      \* AgentState: the dictionary the graph passes between nodes
    form,       \* the form configuration the run was started with
    pc,         \* the node the graph runs next, or how the run ended
    calls,      \* the calls made to the adapters and the engine, in order
    loaded,     \* the form as it was loaded, before the run
    vInput,     \* sanitize_sql: the sql argument
    vLimits,    \* sanitize_sql: allow_non_select, default_limit, hard_max_rows
    vResult,    \* sanitize_sql: what the call returned or raised
    vAgain,     \* sanitize_sql applied to the text it returned
    vStage      \* "input", "validated", "revalidated"

vars == <<state, form, pc, calls, loaded, vInput, vLimits, vResult, vAgain, vStage>>

agentVars == <<state, form, pc, calls, loaded>>

validateVars == <<vInput, vLimits, vResult, vAgain, vStage>>

\* Python's None, for the Optional[str] fields (texts are sequences)
None == << "None" >>

(***************************************************************************)
(* Inputs of the guardrail: texts built from fragments of model output.    *)
(***************************************************************************)
MaxFrags == 3

Fragments ==
    << <<"s", "e", "l", "e", "c", "t", " ", "1">>,
       <<"u", "p", "d", "a", "t", "e", " ", "t">>,
       <<"w", "i", "t", "h", " ", "a", " ", "a", "s", " ", "(", "s", "e", "l", "e", "c", "t", " ", "2", ")", " ">>,
       <<" ", "f", "r", "o", "m", " ", "(", "s", "e", "l", "e", "c", "t", " ", "2", " ", "l", "i", "m", "i", "t", " ", "5", ")">>,
       <<" ", "f", "r", "o", "m", " ", "(", "s", "e", "l", "e", "c", "t", " ", "2", " ", "l", "i", "m", "i", "t", " ", "5", "0", ")">>,
       <<"\n", "l", "i", "m", "i", "t", " ", "5">>,
       <<" ", "L", "I", "M", "I", "T", " ", "5", "0">>,
       <<";">>,
       <<";", "\n">>,
       <<" ">>,
       <<Tick>>,
       <<"s", "q", "l">>,
       <<":">>,
       <<";", " ", "d", "r", "o", "p", " ", "t", "a", "b", "l", "e", " ", "x">> >>

RECURSIVE Flatten(_)
Flatten(fs) ==
    IF Len(fs) = 0 THEN << >> ELSE Fragments[fs[1]] \o Flatten(Tail(fs))

InputTexts ==
    { Flatten(fs) : fs \in UNION { [1..n -> 1..Len(Fragments)] : n \in 0..MaxFrags } }

\* the policy limits of the form: hard_max_rows >= default_limit >= 1
LimitValues == {3, 20}

PolicyLimits ==
    { l \in [allow_non_select : BOOLEAN, default_limit : LimitValues,
              hard_max_rows : LimitValues] :
        l.hard_max_rows >= l.default_limit /\ l.default_limit >= 1 }

NoResult == [ok |-> FALSE, text |-> << >>, warnings |-> << >>, err |-> "not called"]

Sanitize(sql, limits) ==
    SanitizeSql(sql, limits.allow_non_select, limits.default_limit, limits.hard_max_rows)

\* the agent is not running while the guardrail is exercised on its own
AgentIdle ==
    /\ state = [turn |-> 0]
    /\ form = [limits |-> vLimits]
    /\ pc = "idle"
    /\ calls = << >>
    /\ loaded = form

InitValidate ==
    /\ vInput \in InputTexts
    /\ vLimits \in PolicyLimits
    /\ vResult = NoResult
    /\ vAgain = NoResult
    /\ vStage = "input"
    /\ AgentIdle

\* sanitize_sql(vInput, **limits)
Validate ==
    /\ vStage = "input"
    /\ vResult' = Sanitize(vInput, vLimits)
    /\ vStage' = "validated"
    /\ UNCHANGED <<vInput, vLimits, vAgain, agentVars>>

\* sanitize_sql on the text a first call returned (a retry with its output)
Revalidate ==
    /\ vStage = "validated"
    /\ vResult.ok
    /\ vAgain' = Sanitize(vResult.text, vLimits)
    /\ vStage' = "revalidated"
    /\ UNCHANGED <<vInput, vLimits, vResult, agentVars>>

NextValidate == Validate \/ Revalidate

SpecValidate == InitValidate /\ [][NextValidate]_vars


(***************************************************************************)
(* The agent: generate_sql_node, execute_sql_node, review_node, the graph  *)
(* of build_agent_graph and the initial state of run_agent.                *)
(***************************************************************************)
MaxTurnsBound == 3

\* the graph is cut off here; no run of the code gets this far
TurnCap == MaxTurnsBound + 2

\* agent_config.get("max_turns", 3)
DefaultMaxTurns == 3

\* a key the configuration dictionary does not hold
NoEntry == -1

Fence == <<Tick, Tick, Tick>>

FenceSql == <<Tick, Tick, Tick, "s", "q", "l">>

LabelSqlColon == <<"s", "q", "l", ":">>

\* re.search(marker + r"\s*(.*?)\s*```", s, DOTALL): group(1) as
\* [found |-> TRUE, text |-> ...], or found = FALSE when nothing matches
FencedBlock(s, hay, marker) ==
    LET i == FindFrom(hay, marker, 1)
        a == SkipFwd(s, i + Len(marker), WhiteSpace)
        c == IF i = 0 THEN 0 ELSE FindFrom(s, Fence, a)
        e == SkipBack(s, c - 1, WhiteSpace) + 1
    IN  IF i = 0 \/ c = 0 THEN [found |-> FALSE, text |-> << >>]
        ELSE [found |-> TRUE, text |-> IF e <= a THEN << >> ELSE Slice(s, a, e - 1)]

\* lines 135-148: the candidate inside a code fence
ExtractFenced(raw) ==
    IF Contains(Lower(raw), FenceSql)
    THEN LET m == FencedBlock(raw, Lower(raw), FenceSql)
         IN  IF m.found THEN Strip(m.text) ELSE raw
    ELSE IF Contains(raw, Fence)
         THEN LET m == FencedBlock(raw, raw, Fence)
              IN  IF m.found THEN Strip(m.text) ELSE raw
         ELSE raw

\* lines 150-154: a leading "sql:" or "sql" label
StripLabel(raw) ==
    IF StartsWith(Lower(raw), LabelSqlColon) THEN Strip(Slice(raw, 5, Len(raw)))
    ELSE IF StartsWith(Lower(raw), KwSql) THEN Strip(Slice(raw, 4, Len(raw)))
    ELSE raw

\* lines 156-159: everything after the last semicolon is dropped
CutAfterLastSemicolonMutFirst(raw) ==
    IF Contains(raw, << ";" >>) THEN Strip(Slice(raw, 1, FindFrom(raw, << ";" >>, 1)))
    ELSE raw

CutAfterLastSemicolon(raw) ==
    IF Contains(raw, << ";" >>) THEN Strip(Slice(raw, 1, RIndex(raw, << ";" >>)))
    ELSE raw

\* lines 133-159: response.content to sql_raw
ExtractSql(content) ==
    CutAfterLastSemicolon(StripLabel(ExtractFenced(Strip(content))))

\* what the generation adapter may return (response.content)
Completions ==
    { <<Tick, Tick, Tick, "s", "q", "l", "\n", "s", "e", "l", "e", "c", "t", " ", "1", "\n", Tick, Tick, Tick>>,
      <<"s", "e", "l", "e", "c", "t", " ", "1", " ", "l", "i", "m", "i", "t", " ", "5", "0", ";">>,
      <<"s", "e", "l", "e", "c", "t", " ", "1", ";", " ", "d", "r", "o", "p", " ", "t", "a", "b", "l", "e", " ", "x", ";">>,
      <<"s", "e", "l", "e", "c", "t", " ", "1", ";", " ", "d", "r", "o", "p", " ", "t", "a", "b", "l", "e", " ", "x">>,
      <<"u", "p", "d", "a", "t", "e", " ", "t">> }

\* what the verdict adapter may return (response.content)
Verdicts ==
    { <<"G", "O", "O", "D">>,
      <<"G", "o", "o", "d", ".", " ", "o", "k">>,
      <<"N", "O", "T", " ", "G", "O", "O", "D">> }

KwGOOD == <<"G", "O", "O", "D">>

\* what the engine may return for a query: the frame's columns and row count
EngineResults == { [columns |-> <<"a">>, rows |-> 2] }

\* str(e) of what register_tables and con.execute may raise
AttachError == << "register_tables failed" >>

EngineError == << "Binder Error" >>

\* the forms a run may be started with
Forms ==
    { f \in [limits : { l \in PolicyLimits : ~l.allow_non_select /\ l.default_limit = 3
                                            /\ l.hard_max_rows = 20 },
             has_agent : BOOLEAN,
             agent_enabled : BOOLEAN,
             agent_max_turns : (0..MaxTurnsBound) \cup {NoEntry}] :
        ~f.has_agent => (~f.agent_enabled /\ f.agent_max_turns = NoEntry) }

\* agent_config["fallback_message"].format(max_turns=max_turns)
FallbackMessage(max_turns) == << "fallback_message max_turns=" >> \o FormatInt(max_turns)

\* f"REFINE: SQL execution failed with error: {state['error']}"
ErrorFeedback(error) == << "REFINE: SQL execution failed with error: " >> \o error

\* f"SQL sanitization failed: {str(e)}"
SanitizationFailed(err) == << "SQL sanitization failed: ", err >>

\* the truth value Python gives an Optional[str]
Truthy(x) == x # None /\ x # << >>

\* LangGraph's state update: a returned key replaces the state's value,
\* except history, whose reducer (operator.add) concatenates
MergeStateMutOverwrite(st, update) ==
    [k \in DOMAIN st |-> IF k \notin DOMAIN update THEN st[k] ELSE update[k]]

MergeState(st, update) ==
    [k \in DOMAIN st |->
        IF k \notin DOMAIN update THEN st[k]
        ELSE IF k = "history" THEN st[k] \o update[k]
        ELSE update[k]]

\* run_agent lines 395-415
InitialState(f) ==
    [turn |-> 0,
     max_turns |-> IF f.has_agent /\ f.agent_max_turns # NoEntry
                   THEN f.agent_max_turns ELSE DefaultMaxTurns,
     sql |-> None,
     sql_final |-> None,
     previous_sql |-> None,
     results_df |-> None,
     row_count |-> 0,
     columns |-> << >>,
     error |-> None,
     decision |-> "",
     feedback |-> None,
     history |-> << >>]

\* run_agent line 397: agent_config["enabled"] = True on the form's own
\* agent dictionary when it is not enabled (a missing section is a fresh {})
EnableAgent(f) ==
    IF f.has_agent /\ ~f.agent_enabled THEN [f EXCEPT !.agent_enabled = TRUE] ELSE f

ValidateIdle ==
    /\ vInput = << >>
    /\ vLimits = form.limits
    /\ vResult = NoResult
    /\ vAgain = NoResult
    /\ vStage = "idle"

\* the state before run_agent is called with a loaded form
Init ==
    /\ form \in Forms
    /\ loaded = form
    /\ state = [turn |-> 0]
    /\ pc = "start"
    /\ calls = << >>
    /\ ValidateIdle

\* run_agent lines 395-427: up to agent.invoke(initial_state)
RunAgent ==
    /\ pc = "start"
    /\ state' = InitialState(form)
    /\ form' = EnableAgent(form)
    /\ pc' = "generate"
    /\ UNCHANGED <<calls, loaded, validateVars>>

\* the user prompt of a generation call: the state fields it is formatted from
GeneratePrompt(st) ==
    IF st.turn = 0
    THEN [kind |-> "generate", turn |-> st.turn]
    ELSE [kind |-> "generate", turn |-> st.turn, previous_sql |-> st.previous_sql,
          row_count |-> st.row_count, feedback |-> st.feedback]

\* generate_sql_node lines 163-172: the update it returns for sql_raw
GenerateUpdateMutRecordsOldTurn(st, sql_raw) ==
    [sql |-> sql_raw,
     previous_sql |-> st.sql,
     turn |-> st.turn + 1,
     history |-> << [turn |-> st.turn, stage |-> "generate", sql |-> sql_raw] >>]

GenerateUpdate(st, sql_raw) ==
    [sql |-> sql_raw,
     previous_sql |-> st.sql,
     turn |-> st.turn + 1,
     history |-> << [turn |-> st.turn + 1, stage |-> "generate", sql |-> sql_raw] >>]

\* generate_sql_node, with the edge generate -> execute; llm.invoke may raise
GenerateSqlNodeMutSwallowsFailure ==
    /\ pc = "generate"
    /\ state.turn < TurnCap
    /\ calls' = Append(calls, GeneratePrompt(state))
    /\ \/ /\ pc' = "done"
          /\ UNCHANGED state
       \/ \E content \in Completions :
            /\ state' = MergeState(state, GenerateUpdate(state, ExtractSql(content)))
            /\ pc' = "execute"
    /\ UNCHANGED <<form, loaded, validateVars>>

GenerateSqlNode ==
    /\ pc = "generate"
    /\ state.turn < TurnCap
    /\ calls' = Append(calls, GeneratePrompt(state))
    /\ \/ /\ pc' = "raised"
          /\ UNCHANGED state
       \/ \E content \in Completions :
            /\ state' = MergeState(state, GenerateUpdate(state, ExtractSql(content)))
            /\ pc' = "execute"
    /\ UNCHANGED <<form, loaded, validateVars>>

\* execute_sql_node lines 195-208: sanitize_sql raised
ExecuteRejectedMutNoError(st, err) ==
    [sql_final |-> st.sql,
     results_df |-> None,
     row_count |-> 0,
     columns |-> << >>,
     error |-> None,
     history |-> << [turn |-> st.turn, stage |-> "execute", error |-> << err >>] >>]

ExecuteRejectedMutNoRecord(st, err) ==
    [sql_final |-> st.sql,
     results_df |-> None,
     row_count |-> 0,
     columns |-> << >>,
     error |-> SanitizationFailed(err),
     history |-> << >>]

ExecuteRejected(st, err) ==
    [sql_final |-> st.sql,
     results_df |-> None,
     row_count |-> 0,
     columns |-> << >>,
     error |-> SanitizationFailed(err),
     history |-> << [turn |-> st.turn, stage |-> "execute", error |-> << err >>] >>]

\* execute_sql_node lines 224-236: the query ran
ExecuteSucceeded(st, sql_final, res) ==
    [sql_final |-> sql_final,
     results_df |-> << "frame", FormatInt(res.rows)[1] >>,
     row_count |-> res.rows,
     columns |-> res.columns,
     error |-> None,
     history |-> << [turn |-> st.turn, stage |-> "execute", row_count |-> res.rows] >>]

\* execute_sql_node lines 238-251: register_tables or con.execute raised
ExecuteFailedMutKeepsRows(st, sql_final, msg) ==
    [sql_final |-> sql_final,
     error |-> msg,
     history |-> << [turn |-> st.turn, stage |-> "execute", error |-> msg] >>]

ExecuteFailed(st, sql_final, msg) ==
    [sql_final |-> sql_final,
     results_df |-> None,
     row_count |-> 0,
     columns |-> << >>,
     error |-> msg,
     history |-> << [turn |-> st.turn, stage |-> "execute", error |-> msg] >>]

\* execute_sql_node once sanitize_sql has returned or raised r
ExecuteWith(r) ==
    LET attach == [kind |-> "attach", turn |-> state.turn]
        run    == [kind |-> "engine", turn |-> state.turn, text |-> r.text]
    IN  \/ /\ ~r.ok
           /\ state' = MergeState(state, ExecuteRejected(state, r.err))
           /\ UNCHANGED calls
        \/ /\ r.ok
           /\ state' = MergeState(state, ExecuteFailed(state, r.text, AttachError))
           /\ calls' = Append(calls, attach)
        \/ /\ r.ok
           /\ state' = MergeState(state, ExecuteFailed(state, r.text, EngineError))
           /\ calls' = calls \o << attach, run >>
        \/ /\ r.ok
           /\ \E res \in EngineResults :
                state' = MergeState(state, ExecuteSucceeded(state, r.text, res))
           /\ calls' = calls \o << attach, run >>

\* sanitize_sql is pure: its results on the candidates a run can hold, for
\* the limits a form can hold, are computed once and looked up by the node
Candidates == { ExtractSql(content) : content \in Completions }

SanitizedCandidates ==
    { [sql |-> c, limits |-> f.limits, result |-> Sanitize(c, f.limits)] :
        c \in Candidates, f \in Forms }

\* execute_sql_node lines 188-194: sanitize_sql(sql_raw, **limits)
SanitizeCandidate(sql, limits) ==
    (CHOOSE t \in SanitizedCandidates : t.sql = sql /\ t.limits = limits).result

\* execute_sql_node, with the edge execute -> review
ExecuteSqlNodeMutAttachEscapes ==
    /\ pc = "execute"
    /\ \/ /\ ExecuteWith(SanitizeCandidate(state.sql, form.limits))
          /\ pc' = "review"
       \/ /\ SanitizeCandidate(state.sql, form.limits).ok
          /\ calls' = Append(calls, [kind |-> "attach", turn |-> state.turn])
          /\ pc' = "raised"
          /\ UNCHANGED state
    /\ UNCHANGED <<form, loaded, validateVars>>

ExecuteSqlNode ==
    /\ pc = "execute"
    /\ ExecuteWith(SanitizeCandidate(state.sql, form.limits))
    /\ pc' = "review"
    /\ UNCHANGED <<form, loaded, validateVars>>

\* review_node lines 269-281: the turn budget is used up
ReviewBudgetMutNoFeedback(st, max_turns) ==
    [decision |-> "EXIT",
     feedback |-> None,
     history |-> << [turn |-> st.turn, stage |-> "review", decision |-> "EXIT",
                     reason |-> "max_turns_reached"] >>]

ReviewBudget(st, max_turns) ==
    [decision |-> "EXIT",
     feedback |-> FallbackMessage(max_turns),
     history |-> << [turn |-> st.turn, stage |-> "review", decision |-> "EXIT",
                     reason |-> "max_turns_reached"] >>]

\* review_node lines 283-296: the execution failed
ReviewErrorMutExits(st) ==
    [decision |-> "EXIT",
     feedback |-> ErrorFeedback(st.error),
     history |-> << [turn |-> st.turn, stage |-> "review", decision |-> "EXIT",
                     reason |-> "sql_error"] >>]

ReviewError(st) ==
    [decision |-> "REFINE",
     feedback |-> ErrorFeedback(st.error),
     history |-> << [turn |-> st.turn, stage |-> "review", decision |-> "REFINE",
                     reason |-> "sql_error"] >>]

\* review_node lines 325-353: the verdict text decides
ReviewVerdictMutCaseSensitive(st, content) ==
    LET evaluation == Strip(content)
    IN  IF StartsWith(evaluation, KwGOOD)
        THEN [decision |-> "EXIT",
              feedback |-> None,
              history |-> << [turn |-> st.turn, stage |-> "review", decision |-> "EXIT",
                              evaluation |-> evaluation] >>]
        ELSE [decision |-> "REFINE",
              feedback |-> evaluation,
              history |-> << [turn |-> st.turn, stage |-> "review", decision |-> "REFINE",
                              evaluation |-> evaluation] >>]

ReviewVerdictMutAnywhere(st, content) ==
    LET evaluation == Strip(content)
    IN  IF Contains(Upper(evaluation), KwGOOD)
        THEN [decision |-> "EXIT",
              feedback |-> None,
              history |-> << [turn |-> st.turn, stage |-> "review", decision |-> "EXIT",
                              evaluation |-> evaluation] >>]
        ELSE [decision |-> "REFINE",
              feedback |-> evaluation,
              history |-> << [turn |-> st.turn, stage |-> "review", decision |-> "REFINE",
                              evaluation |-> evaluation] >>]

ReviewVerdict(st, content) ==
    LET evaluation == Strip(content)
    IN  IF StartsWith(Upper(evaluation), KwGOOD)
        THEN [decision |-> "EXIT",
              feedback |-> None,
              history |-> << [turn |-> st.turn, stage |-> "review", decision |-> "EXIT",
                              evaluation |-> evaluation] >>]
        ELSE [decision |-> "REFINE",
              feedback |-> evaluation,
              history |-> << [turn |-> st.turn, stage |-> "review", decision |-> "REFINE",
                              evaluation |-> evaluation] >>]

\* build_agent_graph lines 376-383: the conditional edge out of review
RouteMutExitLoops(decision) ==
    IF decision = "EXIT" \/ decision = "REFINE" THEN "generate" ELSE "raised"

RouteMutRefineEnds(decision) ==
    IF decision = "EXIT" \/ decision = "REFINE" THEN "done" ELSE "raised"

Route(decision) ==
    IF decision = "EXIT" THEN "done"
    ELSE IF decision = "REFINE" THEN "generate"
    ELSE "raised"

\* review_node lines 264-267: form["agent"]["max_turns"], a KeyError when absent
BudgetKnown(f) == f.has_agent /\ f.agent_max_turns # NoEntry

\* review_node line 270: if turn >= max_turns
BudgetExhaustedMutOffByOne(turn, max_turns) == turn > max_turns

BudgetExhausted(turn, max_turns) == turn >= max_turns

\* review_node lines 269-296: the checks made before the verdict is asked for
ReviewNeedsVerdictMutBudgetIgnored(st, f) == ~Truthy(st.error)

ReviewNeedsVerdict(st, f) ==
    ~BudgetExhausted(st.turn, f.agent_max_turns) /\ ~Truthy(st.error)

ReviewWithoutVerdictMutErrorFirst(st, f) ==
    IF Truthy(st.error)
    THEN ReviewError(st)
    ELSE ReviewBudget(st, f.agent_max_turns)

ReviewWithoutVerdict(st, f) ==
    IF BudgetExhausted(st.turn, f.agent_max_turns)
    THEN ReviewBudget(st, f.agent_max_turns)
    ELSE ReviewError(st)

\* review_node, with the conditional edge; llm.invoke may raise
ReviewNodeMutFailureRefines ==
    /\ pc = "review"
    /\ IF ~BudgetKnown(form)
       THEN /\ pc' = "raised"
            /\ UNCHANGED <<state, calls>>
       ELSE IF ~ReviewNeedsVerdict(state, form)
       THEN /\ state' = MergeState(state, ReviewWithoutVerdict(state, form))
            /\ pc' = Route(state'.decision)
            /\ UNCHANGED calls
       ELSE /\ calls' = Append(calls, [kind |-> "verdict", turn |-> state.turn,
                                       sql |-> state.sql_final,
                                       row_count |-> state.row_count])
            /\ \/ /\ state' = MergeState(state, [decision |-> "REFINE"])
                  /\ pc' = "generate"
               \/ \E content \in Verdicts :
                    /\ state' = MergeState(state, ReviewVerdict(state, content))
                    /\ pc' = Route(state'.decision)
    /\ UNCHANGED <<form, loaded, validateVars>>

ReviewNode ==
    /\ pc = "review"
    /\ IF ~BudgetKnown(form)
       THEN /\ pc' = "raised"
            /\ UNCHANGED <<state, calls>>
       ELSE IF ~ReviewNeedsVerdict(state, form)
       THEN /\ state' = MergeState(state, ReviewWithoutVerdict(state, form))
            /\ pc' = Route(state'.decision)
            /\ UNCHANGED calls
       ELSE /\ calls' = Append(calls, [kind |-> "verdict", turn |-> state.turn,
                                       sql |-> state.sql_final,
                                       row_count |-> state.row_count])
            /\ \/ /\ pc' = "raised"
                  /\ UNCHANGED state
               \/ \E content \in Verdicts :
                    /\ state' = MergeState(state, ReviewVerdict(state, content))
                    /\ pc' = Route(state'.decision)
    /\ UNCHANGED <<form, loaded, validateVars>>

\* run_agent lines 430-446: the report built from the final state
FinalReportMutFeedbackDropped(st, f) ==
    [sql_generated |-> st.sql,
     sql_executed |-> st.sql_final,
     columns |-> st.columns,
     row_count |-> st.row_count,
     rows |-> IF st.results_df # None THEN st.results_df ELSE << >>,
     turns_taken |-> st.turn,
     error |-> st.error,
     feedback |-> None,
     history |-> st.history]

FinalReport(st, f) ==
    [sql_generated |-> st.sql,
     sql_executed |-> st.sql_final,
     columns |-> st.columns,
     row_count |-> st.row_count,
     rows |-> IF st.results_df # None THEN st.results_df ELSE << >>,
     turns_taken |-> st.turn,
     error |-> st.error,
     feedback |-> st.feedback,
     history |-> st.history]

Next == RunAgent \/ GenerateSqlNode \/ ExecuteSqlNode \/ ReviewNode

Spec == Init /\ [][Next]_vars

\* the graph runs a node whenever one is due: each blocking call returns or raises
FairSpec == Spec /\ WF_vars(Next)


(***************************************************************************)
(* Properties of the refinement loop.                                      *)
(***************************************************************************)
Max(a, b) == IF a >= b THEN a ELSE b

Running == pc # "start"

Terminated == pc \in {"done", "raised"}

\* the executions of generate_sql_node so far
GenerateSteps == Cardinality({ i \in 1..Len(calls) : calls[i].kind = "generate" })

EngineCalls == { i \in 1..Len(calls) : calls[i].kind = "engine" }

Records(stage) == { i \in 1..Len(state.history) : state.history[i].stage = stage }

\* the candidate generated in turn t
GeneratedSql(t) ==
    state.history[CHOOSE i \in Records("generate") : state.history[i].turn = t].sql

ExecFailedAt(t) ==
    \E i \in Records("execute") :
        state.history[i].turn = t /\ "error" \in DOMAIN state.history[i]

ExecSucceededAt(t) ==
    \E i \in Records("execute") :
        state.history[i].turn = t /\ "error" \notin DOMAIN state.history[i]

IsGood(verdict) == StartsWith(Upper(verdict), KwGOOD)

GoodVerdictAt(t) ==
    \E i \in Records("review") :
        /\ state.history[i].turn = t
        /\ "evaluation" \in DOMAIN state.history[i]
        /\ IsGood(state.history[i].evaluation)

DropTableTail == <<";", " ", "d", "r", "o", "p", " ", "t", "a", "b", "l", "e", " ", "x">>

\* C1, as stated: in every run the number of generation steps never exceeds
\* maxTurns, for every maxTurns including 0.
C1_GenerationsWithinMaxTurns == Running => GenerateSteps <= state.max_turns

\* C1, amended: the number of generation steps never exceeds maxTurns when
\* maxTurns >= 1, and is at most one when maxTurns = 0 (the budget is only
\* looked at by the review step that follows a generation).
C1_GenerationsWithinBudget == Running => GenerateSteps <= Max(state.max_turns, 1)

C1_BudgetUsedUp ==
    pc = "done" /\ state.max_turns >= 2 /\ GenerateSteps = state.max_turns

\* C2: a text reaches the engine only as the text sanitize_sql returned for
\* the candidate of the same turn; a candidate holding "; drop table x" is
\* rejected as multi-statement and its turn makes no engine call.
C2_OnlyValidatedSqlRuns ==
    Running =>
        /\ \A i \in EngineCalls :
            LET r == Sanitize(GeneratedSql(calls[i].turn), form.limits)
            IN  r.ok /\ calls[i].text = r.text
        /\ \A g \in Records("generate") :
            Contains(Lower(state.history[g].sql), DropTableTail) =>
                /\ \A i \in EngineCalls : calls[i].turn # state.history[g].turn
                /\ \A e \in Records("execute") :
                    state.history[e].turn = state.history[g].turn =>
                        /\ "error" \in DOMAIN state.history[e]
                        /\ state.history[e].error = << ErrMultiStmt >>

C2_DropTableRejected ==
    /\ pc = "review"
    /\ Contains(Lower(state.sql), DropTableTail)
    /\ state.error = SanitizationFailed(ErrMultiStmt)
    /\ state.results_df = None
    /\ EngineCalls # {}

\* C4: when no verdict is GOOD and no execution fails, a finished run with
\* maxTurns >= 1 took exactly maxTurns turns and its last record is the
\* budget EXIT, with the fallback message as feedback.
C4_BudgetExitAfterMaxTurns ==
    ( /\ pc = "done"
      /\ state.max_turns >= 1
      /\ \A t \in 1..state.turn : ~GoodVerdictAt(t) /\ ~ExecFailedAt(t) )
    =>
    ( /\ state.turn = state.max_turns
      /\ GenerateSteps = state.max_turns
      /\ Len(state.history) = 3 * state.max_turns
      /\ state.history[Len(state.history)] =
            [turn |-> state.max_turns, stage |-> "review", decision |-> "EXIT",
             reason |-> "max_turns_reached"]
      /\ state.decision = "EXIT"
      /\ state.feedback = FallbackMessage(state.max_turns) )

C4_AllTurnsRefused ==
    /\ pc = "done"
    /\ state.max_turns >= 2
    /\ state.turn = state.max_turns
    /\ \A t \in 1..state.turn : ~GoodVerdictAt(t) /\ ~ExecFailedAt(t)
    /\ \E i \in Records("review") : "evaluation" \in DOMAIN state.history[i]

\* C5: when the execution of turn 1 failed and the execution of turn 2
\* succeeded and got a GOOD verdict, the run is over after exactly 2 turns
\* with decision EXIT and an empty error field.
C5_RecoversInTwoTurns ==
    (Running /\ ExecFailedAt(1) /\ ExecSucceededAt(2) /\ GoodVerdictAt(2))
    =>
    ( /\ pc = "done"
      /\ state.turn = 2
      /\ Len(state.history) = 6
      /\ state.decision = "EXIT"
      /\ state.error = None )

C5_FailedThenGood ==
    /\ pc = "done"
    /\ ExecFailedAt(1)
    /\ ExecSucceededAt(2)
    /\ GoodVerdictAt(2)
    /\ state.feedback = None

\* how many steps a run can still take: three per turn left in the budget
Budget == Max(IF Running THEN state.max_turns ELSE InitialState(form).max_turns, 1)

Rank ==
    CASE pc = "start"    -> 3 * Budget + 1
      [] pc = "generate" -> 3 * (Budget - state.turn)
      [] pc = "execute"  -> 3 * (Budget - state.turn) + 2
      [] pc = "review"   -> 3 * (Budget - state.turn) + 1
      [] OTHER           -> 0

\* C6: every run reaches the terminal state whatever the adapters and the
\* engine return: every step lowers a rank that is never negative, so there
\* is no generate -> execute -> review cycle without end.
C6_EveryRunTerminates ==
    /\ [](Rank >= 0)
    /\ [][Rank' < Rank]_vars
    /\ <>Terminated

C6_LoopedAndStopped ==
    /\ pc = "done"
    /\ state.decision = "EXIT"
    /\ state.turn >= 2
    /\ Rank = 0


(***************************************************************************)
(* Properties of the guardrail, on one call of sanitize_sql.               *)
(***************************************************************************)
HasResult == vStage \in {"validated", "revalidated"}

\* the input after step 1 (trimming, fence and label stripping)
Stripped == StripFenceAndLabel(vInput)

\* the values of the LIMIT <n> clauses of a text, in the order they occur
RECURSIVE ClauseValuesFrom(_, _)
ClauseValuesFrom(s, from) ==
    LET m == SearchLimit(s, from)
    IN  IF m.to = 0 THEN << >>
        ELSE << MatchValue(s, m) >> \o ClauseValuesFrom(s, m.to + 1)

ClauseValues(s) == ClauseValuesFrom(s, 1)

AddedWarning(limits) == LIMITSp \o FormatInt(limits.default_limit) \o MsgAdded

ClampWarning(limits) == MsgClampedTo \o FormatInt(limits.hard_max_rows) \o << "." >>

Warned(w) == \E k \in 1..Len(vResult.warnings) : vResult.warnings[k] = w

\* the first token of a text: its first run of word characters
FirstToken(s) ==
    LET i == SkipFwd(s, 1, WhiteSpace)
    IN  Lower(Slice(s, i, SkipFwd(s, i, WordChars) - 1))

\* C3: every text sanitize_sql returns with allowNonSelect = false holds one
\* statement, begins with WITH or SELECT, and contains a LIMIT clause whose
\* value is at most hardMaxRows.
C3_SanitizedQueryInvariant ==
    (HasResult /\ vResult.ok /\ ~vLimits.allow_non_select) =>
        /\ ~MultiStmt(vResult.text)
        /\ FirstToken(vResult.text) \in {KwWith, KwSelect}
        /\ \E k \in 1..Len(ClauseValues(vResult.text)) :
              ClauseValues(vResult.text)[k] <= vLimits.hard_max_rows

\* C7: sanitize_sql is idempotent on every accepted input: applied to the
\* text it returned, under the same limits, it accepts and returns that text.
C7_Idempotent ==
    vStage = "revalidated" => vAgain.ok /\ vAgain.text = vResult.text

\* C8: for an accepted input without a row-limiting clause, exactly one
\* clause LIMIT <defaultLimit> is appended, it still reads defaultLimit in the
\* output, and exactly one warning is emitted.
C8_DefaultLimitAppended ==
    (HasResult /\ vResult.ok /\ ~HasLimit(Stripped)) =>
        /\ vResult.text = RStripChars(RStrip(Stripped), {";"}) \o SpLIMITSp
                            \o FormatInt(vLimits.default_limit)
        /\ vResult.warnings = << AddedWarning(vLimits) >>

\* C9: for an accepted input with an existing LIMIT n clause, a clause with
\* n > hardMaxRows reads LIMIT hardMaxRows in the output and a clamp warning
\* is emitted; when n <= hardMaxRows the output is the input text, unchanged,
\* and no clamp warning is emitted.
C9_ExistingLimitClamped ==
    (HasResult /\ vResult.ok /\ HasLimit(Stripped) /\ ClauseValues(Stripped) # << >>) =>
        LET before == ClauseValues(Stripped)
            after  == ClauseValues(vResult.text)
            h      == vLimits.hard_max_rows
        IN  /\ \A k \in 1..Len(before) :
                  before[k] > h =>
                      /\ Len(after) = Len(before)
                      /\ after[k] = h
                      /\ Warned(ClampWarning(vLimits))
            /\ (\A k \in 1..Len(before) : before[k] <= h) =>
                      /\ vResult.text = Stripped
                      /\ ~Warned(ClampWarning(vLimits))

\* C10: a single-statement input whose first token is neither WITH nor
\* SELECT is rejected with the non-select error and no text when
\* allowNonSelect = false, and is not rejected when allowNonSelect = true.
C10_NonSelectRejected ==
    (HasResult /\ ~MultiStmt(Stripped) /\ FirstToken(Stripped) \notin {KwWith, KwSelect}) =>
        IF vLimits.allow_non_select
        THEN vResult.ok
        ELSE vResult = Rejected(ErrNonSelect)

C10_UpdateRejected ==
    /\ vStage = "validated"
    /\ ~vLimits.allow_non_select
    /\ StartsWith(vInput, <<"u", "p", "d", "a", "t", "e">>)
    /\ ~MultiStmt(Stripped)
    /\ vResult.err = ErrNonSelect
    /\ vResult.text = << >>


(***************************************************************************)
(* Properties of the steps of the graph: the history, the decision and     *)
(* the order of the review checks.                                         *)
(***************************************************************************)
Stages == {"generate", "execute", "review"}

\* a node ran and returned its update (it did not raise)
StepCompleted == pc \in Stages /\ pc' # "raised"

StageOf(i) == << "generate", "execute", "review" >>[((i - 1) % 3) + 1]

LastRecord(h) == h[Len(h)]

IsPrefix(a, b) == Len(a) <= Len(b) /\ \A i \in 1..Len(a) : a[i] = b[i]

\* C11: each completed stage step appends exactly one record, of its own
\* stage; when a review step has just completed the history holds 3 * turn
\* records whose stages read generate, execute, review in that order.
C11_ThreeRecordsPerTurn ==
    [][ StepCompleted =>
          /\ Len(state'.history) = Len(state.history) + 1
          /\ LastRecord(state'.history).stage = pc
          /\ pc = "review" =>
                /\ Len(state'.history) = 3 * state'.turn
                /\ \A i \in 1..Len(state'.history) :
                      state'.history[i].stage = StageOf(i) ]_vars

C11_TwoTurnsRecorded ==
    /\ pc = "generate"
    /\ state.turn = 2
    /\ Len(state.history) = 6
    /\ \A i \in 1..6 : state.history[i].stage = StageOf(i)

\* C12: the history is append-only: the history before any stage step is a
\* prefix of the history after it.
C12_HistoryAppendOnly ==
    [][ (pc \in Stages) => IsPrefix(state.history, state'.history) ]_vars

C12_EarlierRecordsKept ==
    /\ pc = "review"
    /\ Len(state.history) = 5
    /\ state.history[1] = [turn |-> 1, stage |-> "generate", sql |-> GeneratedSql(1)]
    /\ state.history[4].turn = 2

\* C13: the terminal state done is entered only by a review step whose
\* decision is EXIT, never from generate or execute; a review step that
\* returns sets the decision to REFINE or to EXIT, and the graph follows it.
C13_DoneOnlyAfterExitReview ==
    [][ /\ pc' = "done" =>
              /\ pc = "review"
              /\ state'.decision = "EXIT"
              /\ LastRecord(state'.history).stage = "review"
              /\ LastRecord(state'.history).decision = "EXIT"
        /\ (pc = "review" /\ pc' # "raised") =>
              /\ state'.decision \in {"REFINE", "EXIT"}
              /\ LastRecord(state'.history).decision = state'.decision
              /\ pc' = IF state'.decision = "EXIT" THEN "done" ELSE "generate" ]_vars

C13_SatisfiedExit ==
    /\ pc = "done"
    /\ state.turn = 1
    /\ state.decision = "EXIT"
    /\ LastRecord(state.history).stage = "review"
    /\ "evaluation" \in DOMAIN LastRecord(state.history)


\* a review step is about to run with a budget it can read
Reviewing == pc = "review" /\ BudgetKnown(form)

\* the execute step of this turn recorded a failure
LastExecutionFailed ==
    /\ LastRecord(state.history).stage = "execute"
    /\ "error" \in DOMAIN LastRecord(state.history)

ValidationErrors == { << ErrMultiStmt >>, << ErrNonSelect >> }

\* C14: the budget check comes first: a review step at turn >= maxTurns
\* decides EXIT with the fallback message, whether or not the last execution
\* failed, and reaches neither the error check nor the verdict adapter.
C14_BudgetCheckFirst ==
    [][ (Reviewing /\ state.turn >= state.max_turns) =>
          /\ state'.decision = "EXIT"
          /\ state'.feedback = << "fallback_message max_turns=" >> \o FormatInt(state.max_turns)
          /\ LastRecord(state'.history).reason = "max_turns_reached"
          /\ calls' = calls
          /\ pc' = "done" ]_vars

C14_BudgetExitDespiteError ==
    /\ pc = "done"
    /\ state.max_turns >= 1
    /\ state.turn = state.max_turns
    /\ Truthy(state.error)
    /\ LastRecord(state.history).reason = "max_turns_reached"

\* C15: a review step after a failed execution, at turn < maxTurns, decides
\* REFINE without calling the verdict adapter; its feedback is the fixed
\* prefix followed by the failure message, and generate runs next.
C15_FailureRefines ==
    [][ (Reviewing /\ state.turn < state.max_turns /\ LastExecutionFailed) =>
          /\ state'.decision = "REFINE"
          /\ state'.feedback = << "REFINE: SQL execution failed with error: " >> \o state.error
          /\ EndsWith(state.error, LastRecord(state.history).error)
          /\ LastRecord(state'.history).reason = "sql_error"
          /\ calls' = calls
          /\ pc' = "generate" ]_vars

C15_EngineFailureFedBack ==
    /\ pc = "generate"
    /\ state.turn = 1
    /\ state.decision = "REFINE"
    /\ state.error = EngineError
    /\ state.feedback = << "REFINE: SQL execution failed with error: " >> \o EngineError

\* C16: a review step after a successful execution, at turn < maxTurns,
\* decides by the verdict text alone: a text beginning with GOOD in any
\* letter case gives EXIT with no feedback, any other text gives REFINE with
\* the verdict text as feedback; the next generation prompt carries it.
C16_VerdictDecides ==
    [][ /\ (Reviewing /\ state.turn < state.max_turns /\ ~LastExecutionFailed
                      /\ pc' # "raised") =>
              LET rec == LastRecord(state'.history)
              IN  /\ Len(calls') = Len(calls) + 1
                  /\ LastRecord(calls').kind = "verdict"
                  /\ "evaluation" \in DOMAIN rec
                  /\ IF IsGood(rec.evaluation)
                     THEN /\ state'.decision = "EXIT"
                          /\ state'.feedback = None
                          /\ pc' = "done"
                     ELSE /\ state'.decision = "REFINE"
                          /\ state'.feedback = rec.evaluation
                          /\ pc' = "generate"
        /\ (pc = "generate" /\ state.turn > 0 /\ state.decision = "REFINE") =>
              /\ LastRecord(calls').kind = "generate"
              /\ LastRecord(calls').feedback = state.feedback ]_vars

C16_VerdictFedBack ==
    /\ pc = "execute"
    /\ state.turn = 2
    /\ state.history[3].decision = "REFINE"
    /\ "evaluation" \in DOMAIN state.history[3]
    /\ LastRecord(calls).feedback = state.history[3].evaluation

\* C17: a candidate the guardrail rejects does not abort the run: the
\* execute step records a failure (error set, no rows, no engine call) and
\* review runs next; below the budget that review decides REFINE as for an
\* engine failure.
C17_ValidationFailureRefines ==
    [][ /\ (pc = "execute" /\ ~Sanitize(state.sql, form.limits).ok) =>
              /\ pc' = "review"
              /\ Truthy(state'.error)
              /\ state'.results_df = None
              /\ state'.row_count = 0
              /\ state'.columns = << >>
              /\ LastRecord(state'.history).stage = "execute"
              /\ LastRecord(state'.history).error \in ValidationErrors
              /\ calls' = calls
        /\ (Reviewing /\ state.turn < state.max_turns /\ LastExecutionFailed
                      /\ LastRecord(state.history).error \in ValidationErrors) =>
              /\ state'.decision = "REFINE"
              /\ LastRecord(state'.history).reason = "sql_error"
              /\ calls' = calls
              /\ pc' = "generate" ]_vars

C17_NonSelectRefined ==
    /\ pc = "generate"
    /\ state.turn = 1
    /\ state.decision = "REFINE"
    /\ state.history[2].error = << ErrNonSelect >>
    /\ state.results_df = None


\* C18: at every refinement generation step the previous query of the
\* prompt is the sanitized query of the turn before (never absent, not the
\* raw candidate, not an older turn's query), and the row count and the
\* feedback of the prompt are those of that turn.
C18_PromptCarriesLastSanitized ==
    [][ (pc = "generate" /\ state.turn > 0) =>
          LET prompt == LastRecord(calls')
              last   == Sanitize(GeneratedSql(state.turn), form.limits)
          IN  /\ prompt.kind = "generate"
              /\ prompt.previous_sql # None
              /\ last.ok => prompt.previous_sql = last.text
              /\ prompt.row_count = state.row_count
              /\ prompt.feedback = state.feedback ]_vars

\* the generation adapter was called and gave no candidate
GenerationFailed == pc = "generate" /\ state'.turn = state.turn

\* the verdict adapter was called and no review record was written
VerdictFailed ==
    /\ pc = "review"
    /\ Len(calls') = Len(calls) + 1
    /\ state'.history = state.history

\* C19: when the generation adapter fails in a generate step the run ends
\* at once with the error: the state is left as it was, no execute or review
\* step follows, and the run does not end as a normal exit.
C19_GenerationFailureEndsRun ==
    [][ /\ GenerationFailed =>
              /\ pc' = "raised"
              /\ state' = state
              /\ LastRecord(calls').kind = "generate"
        /\ ~(pc = "raised" /\ LastRecord(calls).kind = "generate") ]_vars

C19_SecondGenerationFailed ==
    /\ pc = "raised"
    /\ LastRecord(calls).kind = "generate"
    /\ state.turn = 1
    /\ Len(state.history) = 3
    /\ state.decision = "REFINE"

\* C20: when the verdict adapter fails the failure is not turned into a
\* decision: the decision and the history are left as they were, no generate
\* step follows, and the run ends with the error, neither as the satisfied
\* exit nor as the budget exit.
C20_VerdictFailureEndsRun ==
    [][ /\ VerdictFailed =>
              /\ pc' = "raised"
              /\ state' = state
              /\ LastRecord(calls').kind = "verdict"
        /\ ~(pc = "raised" /\ Len(calls) > 0 /\ LastRecord(calls).kind = "verdict") ]_vars

C20_VerdictCallFailed ==
    /\ pc = "raised"
    /\ LastRecord(calls).kind = "verdict"
    /\ state.turn = 1
    /\ Len(state.history) = 2
    /\ state.decision = ""


(***************************************************************************)
(* Properties of the report, of the execute step and of the configuration. *)
(***************************************************************************)
\* the run returned: run_agent hands its caller the report of the final state
Returned == pc = "done"

Report == FinalReport(state, form)

StoppedOnGoodVerdict ==
    /\ "evaluation" \in DOMAIN LastRecord(state.history)
    /\ IsGood(LastRecord(state.history).evaluation)

StoppedOnBudget ==
    /\ "reason" \in DOMAIN LastRecord(state.history)
    /\ LastRecord(state.history).reason = "max_turns_reached"

\* C21: the report of a run that returns tells why the run stopped: its
\* feedback is empty exactly when the run stopped on a GOOD verdict and is
\* the budget fallback message exactly when the budget was used up, and a
\* run stops for exactly one of the two reasons.
C21_ReportTellsWhyStopped ==
    Returned =>
        /\ (Report.feedback = None) <=> StoppedOnGoodVerdict
        /\ (Report.feedback = << "fallback_message max_turns=" >> \o FormatInt(state.max_turns))
              <=> StoppedOnBudget
        /\ StoppedOnGoodVerdict # StoppedOnBudget

C21_BudgetReport ==
    /\ Returned
    /\ StoppedOnBudget
    /\ Report.turns_taken = 2
    /\ Report.feedback # None
    /\ Report.error = None


\* the calls an execute step made: none, the attachment, or both
CallsMade == Len(calls') - Len(calls)

C23_OneResultVariant ==
    [][ (pc = "execute") =>
          LET rec == LastRecord(state'.history)
          IN  IF "error" \in DOMAIN rec
              THEN /\ Truthy(state'.error)
                   /\ state'.results_df = None
                   /\ state'.row_count = 0
                   /\ state'.columns = << >>
              ELSE /\ state'.error = None
                   /\ state'.results_df # None
                   /\ state'.row_count = rec.row_count
                   /\ \E res \in EngineResults :
                         /\ state'.row_count = res.rows
                         /\ state'.columns = res.columns ]_vars

C23_FailureAfterSuccess ==
    /\ pc = "review"
    /\ state.turn = 2
    /\ "row_count" \in DOMAIN state.history[2]
    /\ state.history[2].row_count > 0
    /\ "error" \in DOMAIN state.history[5]
    /\ state.row_count = 0
    /\ state.results_df = None


\* C24: a run never changes the configuration it was started with: every
\* field of the form equals its value at load time.
C24_ConfigurationNeverMutated == form = loaded

AttachCalls == { i \in 1..Len(calls) : calls[i].kind = "attach" }

\* C25: within one run the tables are attached to the engine exactly once,
\* before the first execution; later turns do not attach again.
C25_TablesAttachedOnce ==
    Running =>
        /\ Cardinality(AttachCalls) <= 1
        /\ \A e \in EngineCalls : \E a \in AttachCalls : a < e

\* the texts the guardrail accepted and returned in the turns so far
AcceptedTexts ==
    { Sanitize(GeneratedSql(t), form.limits).text :
        t \in { u \in 1..state.turn : Sanitize(GeneratedSql(u), form.limits).ok } }

\* C30: the executed-query field of the state and of the report, when set,
\* is a text the guardrail accepted and returned, never the raw candidate.
C30_ExecutedQueryIsSanitized ==
    /\ (Running /\ state.sql_final # None) => state.sql_final \in AcceptedTexts
    /\ (Returned /\ Report.sql_executed # None) => Report.sql_executed \in AcceptedTexts


(***************************************************************************)
(* Properties of the clamp of sanitize_sql.                                *)
(***************************************************************************)
\* the text the clamp step receives: the input after step 1, with the
\* default LIMIT appended when no row-limiting clause was found
BeforeClamp ==
    IF HasLimit(Stripped)
    THEN Stripped
    ELSE RStripChars(RStrip(Stripped), {";"}) \o SpLIMITSp \o FormatInt(vLimits.default_limit)

\* C28: when sanitize_sql clamps, only a LIMIT clause whose value exceeds
\* hardMaxRows is rewritten: every clause with a value <= hardMaxRows keeps
\* its value, a subquery's clause and the clause just appended included.
C28_ClampRewritesOnlyExceeding ==
    (HasResult /\ vResult.ok /\ Warned(ClampWarning(vLimits))) =>
        LET before == ClauseValues(BeforeClamp)
            after  == ClauseValues(vResult.text)
        IN  /\ Len(after) = Len(before)
            /\ \A k \in 1..Len(before) :
                  before[k] <= vLimits.hard_max_rows => after[k] = before[k]

\* C29: no LIMIT clause of a text sanitize_sql returns has a value greater
\* than hardMaxRows, also when the text holds several clauses and the first
\* is within the bound.
C29_NoClauseAboveHardMax ==
    (HasResult /\ vResult.ok) =>
        \A k \in 1..Len(ClauseValues(vResult.text)) :
            ClauseValues(vResult.text)[k] <= vLimits.hard_max_rows


(***************************************************************************)
(* Candidate extraction: lines 133-159 of generate_sql_node applied to a   *)
(* completion text, and the guardrail applied to the candidate.            *)
(***************************************************************************)
MaxExtractFrags == 4

ExtractFragments ==
    << Fence,
       FenceSql,
       <<"\n", "s", "e", "l", "e", "c", "t", " ", "1", "\n">>,
       <<"s", "e", "l", "e", "c", "t", " ", "2">>,
       <<";">>,
       <<" ", "d", "r", "o", "p", " ", "t", "a", "b", "l", "e", " ", "x">>,
       <<"S", "Q", "L", ":">>,
       <<" ">> >>

RECURSIVE FlattenCompletion(_)
FlattenCompletion(fs) ==
    IF Len(fs) = 0 THEN << >> ELSE ExtractFragments[fs[1]] \o FlattenCompletion(Tail(fs))

CompletionTexts ==
    { FlattenCompletion(fs) :
        fs \in UNION { [1..n -> 1..Len(ExtractFragments)] : n \in 0..MaxExtractFrags } }

InitExtract ==
    /\ vInput \in CompletionTexts
    /\ vLimits \in { l \in PolicyLimits : ~l.allow_non_select /\ l.hard_max_rows > l.default_limit }
    /\ vResult = NoResult
    /\ vAgain = NoResult
    /\ vStage = "completion"
    /\ AgentIdle

\* generate_sql_node lines 133-148: trim, then the fenced block if any
ExtractBlock ==
    /\ vStage = "completion"
    /\ vResult' = Accepted(ExtractFenced(Strip(vInput)), << >>)
    /\ vStage' = "fenced"
    /\ UNCHANGED <<vInput, vLimits, vAgain, agentVars>>

\* generate_sql_node lines 150-159: the label, then the cut at the last ";"
FinishCandidate ==
    /\ vStage = "fenced"
    /\ vAgain' = Accepted(CutAfterLastSemicolon(StripLabel(vResult.text)), << >>)
    /\ vStage' = "candidate"
    /\ UNCHANGED <<vInput, vLimits, vResult, agentVars>>

\* execute_sql_node lines 188-194: sanitize_sql on the candidate
GuardCandidate ==
    /\ vStage = "candidate"
    /\ vResult' = Sanitize(vAgain.text, vLimits)
    /\ vStage' = "guarded"
    /\ UNCHANGED <<vInput, vLimits, vAgain, agentVars>>

NextExtract == ExtractBlock \/ FinishCandidate \/ GuardCandidate

SpecExtract == InitExtract /\ [][NextExtract]_vars


\* the trimmed completion text
Completion == Strip(vInput)

\* where a fenced block opens whose closing fence follows: with the sql
\* label (n = 6 characters of marker), or any fence (n = 3)
SqlBlocks(s) ==
    { i \in 1..Len(s) : MatchAt(Lower(s), i, FenceSql) /\ FindFrom(s, Fence, i + 6) > 0 }

AnyBlocks(s) ==
    { i \in 1..Len(s) : MatchAt(s, i, Fence) /\ FindFrom(s, Fence, i + 3) > 0 }

First(S) == CHOOSE i \in S : \A j \in S : i <= j

\* the content of the block opened at i by a marker of n characters
BlockContent(s, i, n) == Strip(Slice(s, i + n, FindFrom(s, Fence, i + n) - 1))

\* C26: extraction follows the priority: the content of a complete fenced
\* block labelled sql when there is one; otherwise the content of a complete
\* fenced block when there is one, also when the text holds an unclosed sql
\* marker; otherwise the raw text.
C26_ExtractionPriority ==
    (vStage = "fenced") =>
        vResult.text =
            IF SqlBlocks(Completion) # {}
            THEN BlockContent(Completion, First(SqlBlocks(Completion)), 6)
            ELSE IF AnyBlocks(Completion) # {}
            THEN BlockContent(Completion, First(AnyBlocks(Completion)), 3)
            ELSE Completion

Semicolons(s) == { i \in 1..Len(s) : s[i] = ";" }

Last(S) == CHOOSE i \in S : \A j \in S : i >= j

\* a ";" with text after it that is neither whitespace nor ";"
TextAfterSemicolon(s) ==
    \E i \in Semicolons(s) : \E j \in (i + 1)..Len(s) :
        /\ s[j] \notin WhiteSpace \cup {";"}
        /\ \A k \in (i + 1)..(j - 1) : s[k] \in WhiteSpace

\* C27: when the extracted text holds a ";" the candidate is the text up to
\* and including the last ";" (the rest is dropped); so a text with one
\* statement terminator followed by more text yields a candidate that passes
\* the multi-statement test, while a text ending in ";" with an earlier
\* terminated statement is kept whole and rejected by it.
C27_CutAtLastSemicolon ==
    /\ (vStage = "candidate") =>
          LET extracted == StripLabel(vResult.text)
          IN  IF Semicolons(extracted) # {}
              THEN /\ vAgain.text = Strip(SubSeq(extracted, 1, Last(Semicolons(extracted))))
                   /\ vAgain.text[Len(vAgain.text)] = ";"
                   /\ Strip(extracted)[Len(Strip(extracted))] = ";" => vAgain.text = Strip(extracted)
              ELSE vAgain.text = extracted
    /\ (vStage = "guarded") =>
          /\ Cardinality(Semicolons(vAgain.text)) = 1 => vResult.err # ErrMultiStmt
          /\ TextAfterSemicolon(vAgain.text) => vResult = Rejected(ErrMultiStmt)

C27_SecondStatementDropped ==
    /\ vStage = "guarded"
    /\ Contains(vInput, <<";", " ", "d", "r", "o", "p", " ", "t", "a", "b", "l", "e", " ", "x">>)
    /\ vAgain.text = <<"s", "e", "l", "e", "c", "t", " ", "2", ";">>
    /\ vResult.ok

C27_BothStatementsRejected ==
    /\ vStage = "guarded"
    /\ vAgain.text = <<"s", "e", "l", "e", "c", "t", " ", "2", ";", " ", "d", "r", "o", "p",
                       " ", "t", "a", "b", "l", "e", " ", "x", ";">>
    /\ vResult = Rejected(ErrMultiStmt)


(***************************************************************************)
(* Properties of the adapter calls, of the turn counter and of the budget. *)
(***************************************************************************)
\* the invocations of the generation adapter and of the verdict adapter
GenerateCalls == { i \in 1..Len(calls) : calls[i].kind = "generate" }

VerdictCalls == { i \in 1..Len(calls) : calls[i].kind = "verdict" }

\* the generation call of the step in progress raised: nothing was recorded
\* after the review that asked for it (or after the start of the run)
GenerationRaised ==
    /\ pc = "raised"
    /\ \/ state.history = << >>
       \/ LastRecord(state.history).stage = "review"

\* C31: no adapter call is repeated inside a step: the generation adapter has
\* been invoked once for each generate step (as many times as the turn
\* counter tells, plus the one call that raised), every generation call and
\* every verdict call belongs to a turn of its own, no verdict call is made
\* in a review step whose turn has reached max_turns, and the verdict calls
\* of a run number at most max(0, max_turns - 1).
C31_AdapterCalledOncePerStep ==
    Running =>
        /\ GenerateSteps = state.turn + (IF GenerationRaised THEN 1 ELSE 0)
        /\ \A i, j \in GenerateCalls : calls[i].turn = calls[j].turn => i = j
        /\ \A i, j \in VerdictCalls : calls[i].turn = calls[j].turn => i = j
        /\ \A i \in VerdictCalls : calls[i].turn < state.max_turns
        /\ Cardinality(VerdictCalls) <= Max(0, state.max_turns - 1)

C31_FullBudgetOfCalls ==
    /\ pc = "done"
    /\ state.max_turns = 3
    /\ state.turn = 3
    /\ GenerateSteps = 3
    /\ Cardinality(VerdictCalls) = 2


\* the turn a record of the history belongs to, were every turn to leave its
\* generate, execute and review record in this order
TurnOfRecord(i) == ((i - 1) \div 3) + 1

\* the edges generate -> execute -> review: the order the nodes of a turn run in
StageOrder == << "generate", "execute", "review" >>

\* C32: the turn counter is 0 when the run starts, a generate step that
\* returns adds exactly 1 to it, execute steps, review steps and steps that
\* raise leave it alone; in every state of a run it equals the number of
\* generate records of the history, every record carries the index of the
\* turn that wrote it (the same for the three records of a turn), and the
\* turns_taken of the report of a returned run is that number.
C32_TurnCounterCountsGenerations ==
    /\ [](Running =>
            /\ state.turn = Cardinality(Records("generate"))
            /\ \A i \in 1..Len(state.history) :
                   /\ state.history[i].turn = TurnOfRecord(i)
                   /\ state.history[i].stage = StageOrder[((i - 1) % 3) + 1]
            /\ Returned => Report.turns_taken = Cardinality(Records("generate")))
    /\ [][ /\ (pc = "start") => state'.turn = 0
           /\ (pc = "generate" /\ pc' = "execute") => state'.turn = state.turn + 1
           /\ (pc \in {"execute", "review"} \/ pc' = "raised") => state'.turn = state.turn ]_vars

C32_SecondTurnReported ==
    /\ Returned
    /\ Report.turns_taken = 2
    /\ Len(state.history) = 6
    /\ \A i \in 4..6 : state.history[i].turn = 2


\* C33: the review step works with the budget the run state recorded at its
\* creation (the configured max_turns, or the default 3 when the form has no
\* agent section or no max_turns entry): once the turn counter has reached
\* state.max_turns the step returns EXIT with the fallback message, and
\* before that it fails only when the verdict call it made raised.
C33_ReviewUsesRecordedBudget ==
    [][ (pc = "review") =>
            IF state.turn >= state.max_turns
            THEN /\ pc' = "done"
                 /\ state'.decision = "EXIT"
                 /\ state'.feedback = FallbackMessage(state.max_turns)
            ELSE (pc' = "raised") =>
                     /\ Len(calls') = Len(calls) + 1
                     /\ calls'[Len(calls')].kind = "verdict" ]_vars

====
